---- MODULE Spec2Model ----
(***************************************************************************)
(* The session state machine of src/App.tsx (component App) together with  *)
(* the controls of src/components/GameUI.tsx that call its handlers.       *)
(*                                                                         *)
(* React state is kept twice: the variables named as in the source hold    *)
(* the latest value (every setX applied in call order), and `rendered`     *)
(* holds the values of the last render, which is what the handler closures *)
(* (startCapture, handleSimulateMove, ...) and the refs synced by the      *)
(* effects of App.tsx:75-84 see.  Refs that the code also writes directly  *)
(* are variables of their own.                                             *)
(*                                                                         *)
(* Geometry: coordinates are points of one meridian, given as metres north *)
(* of a reference point, so that the haversine distance of geo.ts is the   *)
(* absolute difference and a bearing is 0 (north) or 180 (south).          *)
(* Time: Date.now() is the variable `now`, which moves through TimePoints. *)
(***************************************************************************)
EXTENDS Integers, Sequences, FiniteSets, TLC

\* ---------------------------------------------------------------- constants
SPAWN_RADIUS_MIN == 20
SPAWN_RADIUS_MAX == 80
DISCOVER_RADIUS == 18
CAPTURE_RADIUS == 10
HOME_RADIUS == 20
CAPTURE_TIME_BASIC_MS == 1500
CAPTURE_TIME_ADVANCED_MS == 2200
CAPTURE_TIME_CORE_MS == 2600
EVAC_DURATION_MS == 4000
RETICLE_ANGLE_DEG == 18
OUTDOOR_ACCURACY_MAX == 30
INDOOR_ACCURACY_MIN == 50
INDOOR_HOLD_MS == 5000
CARRYING_DELAY_MS == 400
DISMISS_EVAC_MS == 60000
MIN_ACTIVE_NODES == 2
SIMULATE_MOVE_METERS == 10
SIMULATE_TURN_DEG == 45
SPAWN_ANGLE_BIAS_DEG == 60
\* the import of App.tsx:10 finds no such export among the constants: falsy
USE_FAKE_AR == FALSE
\* rollRewardTier (App.tsx:153-155, 131), weights in hundredths
ADVANCED_WEIGHT_CAP == 60
CORE_WEIGHT_CAP == 30
BASIC_WEIGHT_FLOOR == 10
MS_PER_MIN == 60000

\* null of a position, a timestamp, a heading or a timer handle
NULL == -1

\* captureProgress is elapsed / duration in [0, 1]; kept in thousandths
PROGRESS_ONE == 1000

\* ---------------------------------------------------------------- bounds
\* nodes in the session's node set (two batches of three)
MaxNodes == 6
\* successful captures recorded (companions, reward records)
MaxRewards == 2
\* capture interval timers pending at once
MaxIntervals == 2
\* getCurrentPosition requests in flight at once
MaxPendingStart == 1
\* handler calls of one run that find a render still pending, and so read
\* the refs and closures of the render before
MaxStale == 2
\* metres walked in one session (stats.distanceWalked)
MaxDistance == 55

\* the instants Date.now() shows
TimePoints == {1000, 2500, 6000, 7500, 70000}
\* coordinates a position fix reports (metres north of the reference point)
PosSet == {0, 10, 25}
\* the coordinate getCurrentPosition reports at start
StartSet == {0}
\* the fixes of a walk that passes a spawn step and ends between the second
\* node of the first batch (40 m) and the first node of the second (45 m)
BetweenSet == {25, 44}
\* compass headings
HeadingSet == {0, 180}
\* the course a position fix reports; NULL when the device reports none
GeoHeadingSet == {NULL, 0}
\* GPS accuracy readings (metres) and GPS speeds (m/s)
AccuracySet == {12, 60}
SpeedSet == {0, 1}

\* the readings a tier roll is examined on: metres walked, the session's
\* start time and the clock (ms), the companion count, Math.random() in
\* hundredths
DistanceSet == {0, 200, 201, 600, 601}
StartTimeSet == {0, 1000}
NowSet == {1000, 301000, 301001, 601000, 601001}
CountSet == {0, 2, 3, 4, 5}
RollSet == {0, 5, 25, 99}

\* the places, distances and bearings gpsToLocalVector is examined on
PlaneSet == [north : {-30, 0, 40}, east : {-20, 0, 70}]
MoveSet == {0, 1, 50}
CardinalSet == {0, 90, 180, 270}

GameStates ==
  {"IDLE", "OUTDOOR_SEARCH", "CAPTURE_READY", "CAPTURING", "CARRYING",
   "EVAC_READY", "EVAC_ANIM", "RESULT"}

\* the random draws of one spawnNodes call: per node its distance, type and
\* tier (count = 3 is the least the code draws)
SpawnDraws ==
  { << [dist |-> 20, type |-> "Junction", tier |-> "BASIC"],
       [dist |-> 40, type |-> "Open Space", tier |-> "ADVANCED"],
       [dist |-> 60, type |-> "Edge", tier |-> "CORE"] >> }

\* ---------------------------------------------------------------- geo.ts
Abs(x) == IF x < 0 THEN -x ELSE x

Max(a, b) == IF a >= b THEN a ELSE b

Min(a, b) == IF a <= b THEN a ELSE b

getDistanceFromLatLonInMeters(pos1, pos2) == Abs(pos2 - pos1)

getBearing(start, dest) == IF dest < start THEN 180 ELSE 0

\* sin and cos of the two bearings of the meridian
SinDeg(b) == IF b = 90 THEN 1 ELSE IF b = 270 THEN -1 ELSE 0
CosDeg(b) == IF b = 0 THEN 1 ELSE IF b = 180 THEN -1 ELSE 0

\* the vector with north along +Z
LocalVectorNorthPlusZ(dist, bearing) ==
  << SinDeg(bearing) * dist, 0, CosDeg(bearing) * dist >>

\* geo.ts:37-41: x = sin(bearing) * dist, z = -cos(bearing) * dist
LocalVector(dist, bearing) ==
  << SinDeg(bearing) * dist, 0, -(CosDeg(bearing) * dist) >>

gpsToLocalVector(origin, target) ==
  LET dist == getDistanceFromLatLonInMeters(origin, target)
      bearing == getBearing(origin, target)
  IN  LocalVector(dist, bearing)

\* The same functions for places off the meridian of the start, on the
\* tangent plane: a place is [north, east] in metres.
\* geo.ts:5-16, for a displacement along one axis
PlaneDistance(pos1, pos2) ==
  Abs(pos2.north - pos1.north) + Abs(pos2.east - pos1.east)

\* geo.ts:44-57: atan2(y, x) in degrees, y the eastward and x the northward
\* part, for a displacement along one axis; atan2(0, 0) = 0
PlaneBearing(start, dest) ==
  LET y == dest.east - start.east
      x == dest.north - start.north
  IN  IF y > 0 THEN 90
      ELSE IF y < 0 THEN 270
      ELSE IF x < 0 THEN 180
      ELSE 0

\* geo.ts:24-42
PlaneToLocalVector(origin, target) ==
  LocalVector(PlaneDistance(origin, target), PlaneBearing(origin, target))

\* geo.ts:77-104, for the four cardinal bearings
PlaneMovePoint(start, distanceMeters, bearing) ==
  [north |-> start.north + CosDeg(bearing) * distanceMeters,
   east |-> start.east + SinDeg(bearing) * distanceMeters]

movePoint(start, distanceMeters, bearing) ==
  start + CosDeg(bearing) * distanceMeters

\* angular difference of two directions, in [0, 180]
AngleDelta(bearing, headingDeg) ==
  Abs(((bearing - headingDeg + 540) % 360) - 180)

\* the bearings of the meridian generateRandomNode can draw for a heading:
\* heading + angleBias with angleBias in (-60, 60)
SpawnBearings(h) == { b \in {0, 180} : AngleDelta(b, h) < SPAWN_ANGLE_BIAS_DEG }

\* ---------------------------------------------------------------- state
VARIABLES
  now,                  \* Date.now()
  \* React state of App (App.tsx:17-45), latest value
  gameState, currentPos, startPos, heading, nodes, companions, rewardLog,
  stats, capturingId, captureProgress, isOutdoor, isIndoor, manualOutdoor,
  manualHome, isDebugMode,
  \* the last render: the values closures and synced refs hold, and whether
  \* the render showed a nearby node (activeNode, App.tsx:779-785)
  rendered,
  dirty,                \* a state change waits for its render
  stale,                \* handler calls made while a render was pending
  effectDeps,           \* setNodes / setCurrentPos ran since the last render
  \* refs the code writes directly (App.tsx:48-72)
  headingRef, headingAvailableRef, lastSpawnPosRef, indoorStartRef,
  lastOutdoorTickRef, dismissEvacUntilRef, captureTimerRef, watchIdRef,
  leakedWatch,          \* a geolocation watch whose id was overwritten
  listening,            \* a deviceorientation listener is registered
  pendingStart,         \* getCurrentPosition requests in flight
  intervals,            \* pending capture intervals (App.tsx:628)
  carryTimeouts,        \* due times of the CARRYING timeouts (App.tsx:677)
  evacTimeouts,         \* due times of the evac timeouts (App.tsx:691)
  \* history, read by the properties only
  candidateSince,       \* first sample of the current run of candidate samples
  holdSince,            \* the same, of samples taken with manualHome off
  \* the arguments and the result of a call of one of the pure functions
  probe

reactVars ==
  << gameState, currentPos, startPos, heading, nodes, companions, rewardLog,
     stats, capturingId, captureProgress, isOutdoor, isIndoor, manualOutdoor,
     manualHome, isDebugMode >>

refVars ==
  << headingRef, headingAvailableRef, lastSpawnPosRef, indoorStartRef,
     lastOutdoorTickRef, dismissEvacUntilRef, captureTimerRef, watchIdRef, leakedWatch,
     listening >>

timerVars == << intervals, carryTimeouts, evacTimeouts >>

histVars == << candidateSince, holdSince >>

vars ==
  << now, reactVars, rendered, dirty, stale, effectDeps, refVars,
     pendingStart, timerVars, histVars, probe >>

\* no pure function is under examination
NoProbe == [fn |-> "none"]

resetStats ==
  [startTime |-> 0, distanceWalked |-> 0, rewardsCollected |-> 0,
   outdoorTimeMs |-> 0]

\* what a render hands to the closures it creates and to the ref-sync effects
Snapshot(nearby) ==
  [gameState |-> gameState, currentPos |-> currentPos, startPos |-> startPos,
   heading |-> heading, nodes |-> nodes, companions |-> companions,
   manualOutdoor |-> manualOutdoor, manualHome |-> manualHome,
   isDebugMode |-> isDebugMode, nearbyNode |-> nearby]

\* refs that only the effects of App.tsx:75-84 write
nodesRef == rendered.nodes
gameStateRef == rendered.gameState
isDebugModeRef == rendered.isDebugMode
companionsRef == rendered.companions
manualOutdoorRef == rendered.manualOutdoor
manualHomeRef == rendered.manualHome

\* refs the code writes wherever it calls the setter, with the same value
\* (App.tsx:294-297, 314-317, 486-487, 742-745)
startPosRef == startPos
currentPosRef == currentPos

\* lastPosRef (App.tsx:52) is written at the start, at the reset and by every
\* update that moved more than 0.5 m (App.tsx:467-476); positions are whole
\* metres, so it holds the position of the last update
lastPosRef == currentPos

AppInit ==
  /\ now = 1000
  /\ gameState = "IDLE"
  /\ currentPos = NULL
  /\ startPos = NULL
  /\ heading = 0
  /\ nodes = << >>
  /\ companions = << >>
  /\ rewardLog = << >>
  /\ stats = resetStats
  /\ capturingId = << >>
  /\ captureProgress = 0
  /\ isOutdoor = FALSE
  /\ isIndoor = FALSE
  /\ manualOutdoor = FALSE
  /\ manualHome = FALSE
  /\ isDebugMode = FALSE
  /\ rendered = Snapshot(FALSE)
  /\ dirty = FALSE
  /\ stale = 0
  /\ effectDeps = FALSE
  /\ headingRef = 0
  /\ headingAvailableRef = FALSE
  /\ lastSpawnPosRef = NULL
  /\ indoorStartRef = NULL
  /\ lastOutdoorTickRef = NULL
  /\ dismissEvacUntilRef = 0
  /\ captureTimerRef = NULL
  /\ watchIdRef = FALSE
  /\ leakedWatch = FALSE
  /\ listening = FALSE
  /\ pendingStart = 0
  /\ intervals = {}
  /\ carryTimeouts = {}
  /\ evacTimeouts = {}
  /\ candidateSince = NULL
  /\ holdSince = NULL

Init == AppInit /\ probe = NoProbe

\* ---------------------------------------------------------------- helpers
getCaptureDurationMs(tier) ==
  CASE tier = "ADVANCED" -> CAPTURE_TIME_ADVANCED_MS
    [] tier = "CORE" -> CAPTURE_TIME_CORE_MS
    [] OTHER -> CAPTURE_TIME_BASIC_MS

\* a reticle test that compares the angle even before the first heading fix
InReticleNoBypass(node, pos, available, headingDeg) ==
  AngleDelta(getBearing(pos, node.geoPosition), headingDeg)
    <= RETICLE_ANGLE_DEG

\* isTargetInReticle with the two refs it reads given as arguments
InReticle(node, pos, available, headingDeg) ==
  IF ~available THEN TRUE
  ELSE AngleDelta(getBearing(pos, node.geoPosition), headingDeg)
         <= RETICLE_ANGLE_DEG

isTargetInReticle(node, pos) ==
  InReticle(node, pos, headingAvailableRef, headingRef)

\* the test without its look at the captured flag
EligibleIgnoringCaptured(node, pos, available, headingDeg) ==
  /\ node.discovered
  /\ getDistanceFromLatLonInMeters(pos, node.geoPosition) < CAPTURE_RADIUS
  /\ InReticle(node, pos, available, headingDeg)

\* the test of App.tsx:590-592, 615-620 and 779-785
Eligible(node, pos, available, headingDeg) ==
  /\ node.discovered
  /\ ~node.captured
  /\ getDistanceFromLatLonInMeters(pos, node.geoPosition) < CAPTURE_RADIUS
  /\ InReticle(node, pos, available, headingDeg)

HasEligible(ns, pos, available, headingDeg) ==
  /\ pos # NULL
  /\ \E i \in DOMAIN ns : Eligible(ns[i], pos, available, headingDeg)

\* Array.prototype.find: the first element that passes
FirstEligible(ns, pos) ==
  LET hits == { i \in DOMAIN ns :
                  Eligible(ns[i], pos, headingAvailableRef, headingRef) }
  IN  IF hits = {} THEN 0
      ELSE CHOOSE i \in hits : \A j \in hits : i <= j

generateRandomNode(center, bearing, dist) == movePoint(center, dist, bearing)

\* the nodes spawnNodes(center, ...) appends for the draws of one call
spawnNodes(center, bearing, draw) ==
  [ i \in DOMAIN draw |->
      LET geoPos == generateRandomNode(center, bearing, draw[i].dist)
          localPos == gpsToLocalVector(center, geoPos)
      IN  [ id |-> << now, i - 1 >>,
            type |-> draw[i].type,
            tier |-> draw[i].tier,
            geoPosition |-> geoPos,
            position |-> << localPos[1], 0, localPos[3] >>,
            captured |-> FALSE,
            discovered |-> FALSE ] ]

\* the flag recomputed from the distance alone
DiscoveredInRangeOnly(node, dist) == dist < DISCOVER_RADIUS

\* App.tsx:526
Discovered(node, dist) == node.discovered \/ dist < DISCOVER_RADIUS

\* the map of App.tsx:523-537
UpdateNode(node, newPos) ==
  LET localPos == gpsToLocalVector(newPos, node.geoPosition)
      dist == getDistanceFromLatLonInMeters(newPos, node.geoPosition)
  IN  [ node EXCEPT
          !.discovered = Discovered(node, dist),
          !.position = << localPos[1], node.position[2], localPos[3] >> ]

\* the target chosen again at completion: the nodes eligible where the player
\* stands now
MarkEligibleCaptured(ns, id) ==
  [ i \in DOMAIN ns |->
      IF Eligible(ns[i], currentPos, headingAvailableRef, headingRef)
      THEN [ ns[i] EXCEPT !.captured = TRUE ] ELSE ns[i] ]

\* App.tsx:658
MarkCaptured(ns, id) ==
  [ i \in DOMAIN ns |->
      IF ns[i].id = id THEN [ ns[i] EXCEPT !.captured = TRUE ] ELSE ns[i] ]

\* App.tsx:446-449; speed > 0.3 on whole metres per second
OutdoorDetected(accuracyValue, speedValue, hasHeading) ==
  /\ accuracyValue # NULL
  /\ accuracyValue <= OUTDOOR_ACCURACY_MAX
  /\ (hasHeading \/ (speedValue # NULL /\ 10 * speedValue > 3))

\* App.tsx:451-455
OutdoorActive(outdoorDetected) ==
  IF manualHomeRef THEN FALSE
  ELSE IF manualOutdoorRef THEN TRUE
  ELSE outdoorDetected

\* App.tsx:458-465: the time since the last outdoor update
OutdoorDeltaMs(outdoorActive) ==
  IF outdoorActive
  THEN LET lastTick == IF lastOutdoorTickRef = NULL THEN now
                       ELSE lastOutdoorTickRef
       IN  Max(0, now - lastTick)
  ELSE 0

\* the displacement along the meridian, with its sign
SignedDistanceDelta(newPos) ==
  IF lastPosRef # NULL THEN newPos - lastPosRef ELSE 0

\* App.tsx:467-476: the way from the last position, past the jitter threshold
\* of 0.5 m (whole metres: 1 m or more)
DistanceDelta(newPos) ==
  IF lastPosRef # NULL
  THEN LET delta == getDistanceFromLatLonInMeters(lastPosRef, newPos)
       IN  IF delta >= 1 THEN delta ELSE 0
  ELSE 0

\* App.tsx:490-493
IndoorCandidate(distToHome, accuracyValue) ==
  /\ distToHome < HOME_RADIUS
  /\ accuracyValue # NULL
  /\ accuracyValue >= INDOOR_ACCURACY_MIN

\* App.tsx:495-499
NextIndoorStart(indoorCandidate) ==
  IF ~manualHomeRef /\ indoorCandidate
  THEN (IF indoorStartRef = NULL THEN now ELSE indoorStartRef)
  ELSE IF ~indoorCandidate THEN NULL
  ELSE indoorStartRef

\* App.tsx:501-503, on the value NextIndoorStart left in the ref
IndoorDetected(indoorStart) ==
  \/ manualHomeRef
  \/ (indoorStart # NULL /\ now - indoorStart >= INDOOR_HOLD_MS)

\* the offer made at any distance from home
EvacReadyAnywhere(distToHome, indoorDetected) ==
  /\ Len(companionsRef) > 0
  /\ indoorDetected
  /\ gameStateRef # "EVAC_ANIM"
  /\ now > dismissEvacUntilRef

\* App.tsx:506-512
EvacReadyCondition(distToHome, indoorDetected) ==
  /\ distToHome < HOME_RADIUS
  /\ Len(companionsRef) > 0
  /\ indoorDetected
  /\ gameStateRef # "EVAC_ANIM"
  /\ now > dismissEvacUntilRef

\* App.tsx:515-518
EvacLostCondition(distToHome, indoorDetected) ==
  /\ (distToHome >= HOME_RADIUS \/ ~indoorDetected)
  /\ gameStateRef = "EVAC_READY"

\* App.tsx:506-521
GameStateAfterUpdate(distToHome, indoorDetected) ==
  IF EvacReadyCondition(distToHome, indoorDetected) THEN "EVAC_READY"
  ELSE IF EvacLostCondition(distToHome, indoorDetected) THEN "OUTDOOR_SEARCH"
  ELSE gameState

\* App.tsx:539-552
ShouldSpawn(newPos) ==
  LET activeNodes == { i \in DOMAIN nodesRef : ~nodesRef[i].captured }
      lastSpawn == IF lastSpawnPosRef = NULL THEN newPos ELSE lastSpawnPosRef
      distSinceSpawn == getDistanceFromLatLonInMeters(lastSpawn, newPos)
      minActiveNodes == IF USE_FAKE_AR THEN 4 ELSE MIN_ACTIVE_NODES
  IN  \/ Cardinality(activeNodes) < minActiveNodes
      \/ distSinceSpawn >= SPAWN_RADIUS_MIN

\* App.tsx:630, in thousandths
Progress(elapsed, captureDuration) ==
  IF elapsed >= captureDuration THEN PROGRESS_ONE
  ELSE (elapsed * PROGRESS_ONE) \div captureDuration

\* a handle setInterval has not handed to a pending interval
FreshHandle ==
  CHOOSE h \in 1..(Cardinality(intervals) + 1) :
    \A t \in intervals : t.handle # h

\* clearInterval(captureTimerRef.current) of App.tsx:640-643, 650-653, 759-762
ClearCaptureTimer == { t \in intervals : t.handle # captureTimerRef }

\* ---------------------------------------------------------------- start
\* the controls of GameUI.tsx, as the last render drew them
StartScreen == rendered.gameState = "IDLE"
ResultScreen == rendered.gameState = "RESULT"
Hud == ~StartScreen /\ ~ResultScreen
CaptureButton ==
  /\ Hud
  /\ rendered.gameState \in {"CAPTURE_READY", "CAPTURING"}
  /\ rendered.nearbyNode
EmergencyEvacButton ==
  Hud /\ rendered.gameState \notin {"EVAC_READY", "EVAC_ANIM"}
ConfirmEvacButton == Hud /\ rendered.gameState = "EVAC_READY"
ContinueButton == Hud /\ rendered.gameState = "EVAC_READY"
DebugControls == Hud /\ rendered.isDebugMode

\* handleStart up to the geolocation requests (App.tsx:213-351)
HandleStart ==
  /\ StartScreen
  /\ pendingStart < MaxPendingStart
  /\ pendingStart' = pendingStart + 1
  /\ listening' = TRUE
  /\ leakedWatch' = (leakedWatch \/ watchIdRef)
  /\ watchIdRef' = TRUE
  /\ UNCHANGED << now, reactVars, rendered, dirty, effectDeps, headingRef,
                  headingAvailableRef, lastSpawnPosRef, indoorStartRef,
                  dismissEvacUntilRef,
                  lastOutdoorTickRef, captureTimerRef, timerVars, histVars >>

\* the callbacks of getCurrentPosition (App.tsx:292-326)
StartSession(coords, debug) ==
  /\ pendingStart > 0
  /\ pendingStart' = pendingStart - 1
  /\ startPos' = coords
  /\ currentPos' = coords
  /\ lastSpawnPosRef' = coords
  /\ stats' = [resetStats EXCEPT !.startTime = now]
  /\ gameState' = "OUTDOOR_SEARCH"
  /\ isDebugMode' = (isDebugMode \/ debug)
  /\ \E draw \in SpawnDraws, b \in SpawnBearings(0) :
       /\ Len(nodes) + Len(draw) <= MaxNodes
       /\ nodes' = nodes \o spawnNodes(coords, b, draw)
  /\ dirty' = TRUE
  /\ effectDeps' = TRUE
  /\ UNCHANGED << now, heading, companions, rewardLog, capturingId,
                  captureProgress, isOutdoor, isIndoor, manualOutdoor,
                  manualHome, rendered, headingRef, headingAvailableRef,
                  indoorStartRef, dismissEvacUntilRef,
                  lastOutdoorTickRef, captureTimerRef,
                  watchIdRef, leakedWatch, listening, timerVars, histVars >>

\* the fix getCurrentPosition reports: coordinates are counted from the place
\* of the session's first fix, so that one is StartSet; a callback that
\* arrives during a session reports wherever the player is by then
StartFixes == IF startPos = NULL THEN StartSet ELSE PosSet

StartSuccess == \E coords \in StartFixes : StartSession(coords, FALSE)

StartError == StartSession(0, TRUE)

\* ---------------------------------------------------------------- tier roll
\* rollRewardTier (App.tsx:128-158). Weights are in hundredths: every weight
\* the code computes is a sum of 0.05, 0.1 and 0.2 steps, and the sum of the
\* three weights the code forms in double arithmetic is 1.0 wherever the sum
\* of the hundredths is 100.
\* App.tsx:130-133: the session's minutes, as milliseconds
durationMs(startTime, nowAt) == IF startTime # 0 THEN nowAt - startTime ELSE 0

\* the distance bonus of the far threshold taken instead of the sum
advancedWeightFarOnly(distance, duration, companionsCount) ==
  Min( (IF distance > 600 THEN 10 ELSE 20 + (IF distance > 200 THEN 10 ELSE 0))
       + (IF duration > 5 * MS_PER_MIN THEN 10 ELSE 0)
       + (IF companionsCount >= 3 THEN 10 ELSE 0),
       ADVANCED_WEIGHT_CAP )

\* App.tsx:136-153
advancedWeight(distance, duration, companionsCount) ==
  Min( 20
       + (IF distance > 200 THEN 10 ELSE 0)
       + (IF distance > 600 THEN 10 ELSE 0)
       + (IF duration > 5 * MS_PER_MIN THEN 10 ELSE 0)
       + (IF companionsCount >= 3 THEN 10 ELSE 0),
       ADVANCED_WEIGHT_CAP )

\* App.tsx:137-154
coreWeight(distance, duration, companionsCount) ==
  Min( 5
       + (IF distance > 600 THEN 5 ELSE 0)
       + (IF duration > 10 * MS_PER_MIN THEN 5 ELSE 0)
       + (IF companionsCount >= 5 THEN 5 ELSE 0),
       CORE_WEIGHT_CAP )

\* a floor of one half for the Basic weight
basicWeightHalfFloor(advanced, core) == Max(50, 100 - advanced - core)

\* App.tsx:155
basicWeight(advanced, core) == Max(BASIC_WEIGHT_FLOOR, 100 - advanced - core)

\* the three weights of one call
TierWeights(distance, duration, companionsCount) ==
  LET a == advancedWeight(distance, duration, companionsCount)
      c == coreWeight(distance, duration, companionsCount)
  IN  [advanced |-> a, core |-> c, basic |-> basicWeight(a, c)]

\* App.tsx:157-161, roll being Math.random() in hundredths
TierOfRoll(w, roll) ==
  IF roll < w.core THEN "CORE"
  ELSE IF roll < w.core + w.advanced THEN "ADVANCED"
  ELSE "BASIC"

\* the readings rollRewardTier takes: statsRef, companionsRef, Date.now() and
\* Math.random()
TierInputs ==
  [fn : {"rollRewardTier"}, distanceWalked : DistanceSet,
   startTime : StartTimeSet, nowAt : NowSet, companionsCount : CountSet,
   roll : RollSet, done : {FALSE}]

\* one call of rollRewardTier on the readings of the probe
RollRewardTier ==
  /\ probe.fn = "rollRewardTier"
  /\ ~probe.done
  /\ LET w == TierWeights(probe.distanceWalked,
                          durationMs(probe.startTime, probe.nowAt),
                          probe.companionsCount)
     IN  probe' = [fn |-> "rollRewardTier", done |-> TRUE,
                   distanceWalked |-> probe.distanceWalked,
                   startTime |-> probe.startTime, nowAt |-> probe.nowAt,
                   companionsCount |-> probe.companionsCount,
                   roll |-> probe.roll,
                   weights |-> w, tier |-> TierOfRoll(w, probe.roll)]
  /\ UNCHANGED << now, reactVars, rendered, dirty, stale, effectDeps, refVars,
                  pendingStart, timerVars, histVars >>

\* ---------------------------------------------------------------- frame
\* an origin, and a target a distance away along a bearing
FrameInputs ==
  [fn : {"gpsToLocalVector"}, origin : PlaneSet, distanceMeters : MoveSet,
   bearing : CardinalSet, done : {FALSE}]

\* gpsToLocalVector(origin, movePoint(origin, distanceMeters, bearing))
GpsToLocalVector ==
  /\ probe.fn = "gpsToLocalVector"
  /\ ~probe.done
  /\ LET target == PlaneMovePoint(probe.origin, probe.distanceMeters,
                                  probe.bearing)
     IN  probe' = [fn |-> "gpsToLocalVector", done |-> TRUE,
                   origin |-> probe.origin,
                   distanceMeters |-> probe.distanceMeters,
                   bearing |-> probe.bearing, target |-> target,
                   vector |-> PlaneToLocalVector(probe.origin, target)]
  /\ UNCHANGED << now, reactVars, rendered, dirty, stale, effectDeps, refVars,
                  pendingStart, timerVars, histVars >>

\* ---------------------------------------------------------------- position
\* handleLocationUpdate (App.tsx:421-556), past the return of line 428
ProcessLocationUpdate(newPos, geoHeading, accuracy, speed) ==
  LET start == startPosRef
      hasGeoHeading == geoHeading # NULL
      setsHeading == ~isDebugModeRef /\ hasGeoHeading
      accuracyValue == accuracy
      speedValue == speed
      hasHeading == headingAvailableRef \/ hasGeoHeading
      outdoorDetected == OutdoorDetected(accuracyValue, speedValue, hasHeading)
      distToHome == getDistanceFromLatLonInMeters(newPos, start)
      indoorCandidate == IndoorCandidate(distToHome, accuracyValue)
      indoorStart == NextIndoorStart(indoorCandidate)
      indoorDetected == IndoorDetected(indoorStart)
      outdoorActive == OutdoorActive(outdoorDetected)
      outdoorDeltaMs == OutdoorDeltaMs(outdoorActive)
      distanceDelta == DistanceDelta(newPos)
      moved == [ i \in DOMAIN nodes |-> UpdateNode(nodes[i], newPos) ]
      headingForSpawn == IF hasGeoHeading THEN geoHeading ELSE headingRef
  IN  /\ headingAvailableRef' = (headingAvailableRef \/ setsHeading)
      /\ headingRef' = IF setsHeading THEN geoHeading ELSE headingRef
      /\ heading' = IF setsHeading THEN geoHeading ELSE heading
      /\ isOutdoor' = outdoorActive
      /\ lastOutdoorTickRef' = IF outdoorActive THEN now ELSE NULL
      /\ stats.distanceWalked + distanceDelta <= MaxDistance
      /\ stats' = [ stats EXCEPT !.distanceWalked = @ + distanceDelta,
                                 !.outdoorTimeMs = @ + outdoorDeltaMs ]
      /\ currentPos' = newPos
      /\ indoorStartRef' = indoorStart
      /\ isIndoor' = indoorDetected
      /\ gameState' = GameStateAfterUpdate(distToHome, indoorDetected)
      /\ IF ShouldSpawn(newPos)
         THEN /\ \E draw \in SpawnDraws, b \in SpawnBearings(headingForSpawn) :
                   /\ Len(nodes) + Len(draw) <= MaxNodes
                   /\ nodes' = moved \o spawnNodes(newPos, b, draw)
              /\ lastSpawnPosRef' = newPos
         ELSE /\ nodes' = moved
              /\ lastSpawnPosRef' =
                   IF lastSpawnPosRef = NULL THEN newPos ELSE lastSpawnPosRef
      /\ candidateSince' =
           IF indoorCandidate
           THEN (IF candidateSince = NULL THEN now ELSE candidateSince)
           ELSE NULL
      /\ holdSince' =
           IF indoorCandidate /\ ~manualHome
           THEN (IF holdSince = NULL THEN now ELSE holdSince)
           ELSE NULL
      /\ dirty' = TRUE
      /\ effectDeps' = TRUE
      /\ UNCHANGED << now, startPos, companions, rewardLog, capturingId,
                      captureProgress, manualOutdoor, manualHome, rendered,
                      dismissEvacUntilRef, captureTimerRef, watchIdRef,
                      leakedWatch, listening, pendingStart, timerVars >>

\* handleLocationUpdate (App.tsx:421-556)
handleLocationUpdate(newPos, geoHeading, accuracy, speed) ==
  IF startPosRef = NULL
  THEN /\ dirty' = (dirty \/ isDebugMode' # isDebugMode)
       /\ UNCHANGED << now, gameState, currentPos, startPos, heading, nodes,
                       companions, rewardLog, stats, capturingId,
                       captureProgress, isOutdoor, isIndoor, manualOutdoor,
                       manualHome, rendered, effectDeps, refVars, pendingStart,
                       timerVars, histVars >>
  ELSE ProcessLocationUpdate(newPos, geoHeading, accuracy, speed)

\* the watchPosition callback (App.tsx:331-342) with a fix whose course,
\* accuracy and speed are of the given kinds
GpsFixAt(positions, courses, accuracies, speeds) ==
  /\ watchIdRef \/ leakedWatch
  /\ ~isDebugModeRef
  /\ UNCHANGED isDebugMode
  /\ \E newPos \in positions, geoHeading \in courses,
        accuracy \in accuracies, speed \in speeds :
       handleLocationUpdate(newPos, geoHeading, accuracy, speed)

GpsFix(courses, accuracies, speeds) ==
  GpsFixAt(PosSet, courses, accuracies, speeds)

GpsUpdate == GpsFix(GeoHeadingSet, AccuracySet, SpeedSet)

\* fixes of a moving receiver with a clear view of the sky
GpsOutdoors ==
  GpsFix(GeoHeadingSet, { a \in AccuracySet : a <= OUTDOOR_ACCURACY_MAX },
         { v \in SpeedSet : 10 * v > 3 })

\* fixes of a receiver that reports no course and no movement
GpsPlain == GpsFix({NULL}, AccuracySet, {0})

\* fixes of a moving receiver that reports no course
GpsMoving == GpsFix({NULL}, AccuracySet, { v \in SpeedSet : 10 * v > 3 })

\* fixes of a walk north that ends between two nodes
GpsBetweenNodes ==
  GpsFixAt(BetweenSet, {NULL}, { a \in AccuracySet : a <= OUTDOOR_ACCURACY_MAX },
           { v \in SpeedSet : 10 * v > 3 })

\* fixes of a still receiver under a roof
GpsIndoors ==
  GpsFix({NULL}, { a \in AccuracySet : a >= INDOOR_ACCURACY_MIN }, {0})

\* handleSimulateMove (App.tsx:563-569), from the debug controls
HandleSimulateMove ==
  /\ DebugControls
  /\ rendered.currentPos # NULL
  /\ rendered.heading \in {0, 180}
  /\ isDebugMode' = TRUE
  /\ LET newPos == movePoint(rendered.currentPos, SIMULATE_MOVE_METERS,
                             rendered.heading)
     IN  /\ newPos \in PosSet
         /\ handleLocationUpdate(newPos, rendered.heading, NULL, 0)

\* handleSimulateTurn (App.tsx:571-578)
HandleSimulateTurn ==
  /\ DebugControls
  /\ \E degrees \in {-SIMULATE_TURN_DEG, SIMULATE_TURN_DEG} :
       heading' = (heading + degrees + 360) % 360
  /\ isDebugMode' = TRUE
  /\ headingAvailableRef' = TRUE
  /\ dirty' = TRUE
  /\ UNCHANGED << now, gameState, currentPos, startPos, nodes, companions,
                  rewardLog, stats, capturingId, captureProgress, isOutdoor,
                  isIndoor, manualOutdoor, manualHome, rendered, effectDeps,
                  headingRef, lastSpawnPosRef, indoorStartRef,
                  dismissEvacUntilRef,
                  lastOutdoorTickRef, captureTimerRef, watchIdRef,
                  leakedWatch, listening, pendingStart, timerVars, histVars >>

\* onToggleDebug (App.tsx:831)
ToggleDebug ==
  /\ Hud
  /\ isDebugMode' = ~rendered.isDebugMode
  /\ dirty' = (dirty \/ isDebugMode' # isDebugMode)
  /\ UNCHANGED << now, gameState, currentPos, startPos, heading, nodes,
                  companions, rewardLog, stats, capturingId, captureProgress,
                  isOutdoor, isIndoor, manualOutdoor, manualHome, rendered,
                  effectDeps, refVars, pendingStart, timerVars, histVars >>

\* handleOrientation (App.tsx:358-390) with a compass reading
HandleOrientation ==
  /\ listening
  /\ IF isDebugModeRef
     THEN UNCHANGED << headingRef, heading, headingAvailableRef >>
     ELSE /\ \E compass \in HeadingSet :
               /\ headingRef' = compass
               /\ heading' = compass
          /\ headingAvailableRef' = TRUE
  /\ dirty' = TRUE
  /\ UNCHANGED << now, gameState, currentPos, startPos, nodes, companions,
                  rewardLog, stats, capturingId, captureProgress, isOutdoor,
                  isIndoor, manualOutdoor, manualHome, isDebugMode, rendered,
                  effectDeps, lastSpawnPosRef, indoorStartRef,
                  dismissEvacUntilRef,
                  lastOutdoorTickRef, captureTimerRef, watchIdRef,
                  leakedWatch, listening, pendingStart, timerVars, histVars >>

\* ---------------------------------------------------------------- render
\* one render of App with its effects: the ref syncs of App.tsx:75-84 and
\* the capture-readiness effect of App.tsx:583-608
ReadinessAfterEffect(headingDeg) ==
  IF currentPos = NULL \/ gameState \in {"CAPTURING", "EVAC_ANIM"}
  THEN gameState
  ELSE IF HasEligible(nodes, currentPos, headingAvailableRef, headingDeg)
       THEN "CAPTURE_READY"
       ELSE IF gameState = "CAPTURE_READY" THEN "OUTDOOR_SEARCH"
            ELSE gameState

Render ==
  /\ dirty
  /\ LET nearby ==
           HasEligible(nodes, currentPos, headingAvailableRef, headingRef)
         synced == IF heading # rendered.heading THEN heading ELSE headingRef
         runs == effectDeps \/ gameState # rendered.gameState
     IN  /\ rendered' = Snapshot(nearby)
         /\ headingRef' = synced
         /\ gameState' = IF runs THEN ReadinessAfterEffect(synced)
                         ELSE gameState
  /\ dirty' = (gameState' # gameState)
  /\ effectDeps' = FALSE
  /\ UNCHANGED << now, stale, currentPos, startPos, heading, nodes, companions,
                  rewardLog, stats, capturingId, captureProgress, isOutdoor,
                  isIndoor, manualOutdoor, manualHome, isDebugMode,
                  headingAvailableRef, lastSpawnPosRef, indoorStartRef,
                  dismissEvacUntilRef,
                  lastOutdoorTickRef, captureTimerRef, watchIdRef,
                  leakedWatch, listening, pendingStart, timerVars, histVars,
                  probe >>

\* ---------------------------------------------------------------- capture
\* startCapture (App.tsx:611-637), from the capture button
StartCapture ==
  /\ CaptureButton
  /\ LET idx == IF rendered.currentPos = NULL THEN 0
                ELSE FirstEligible(rendered.nodes, rendered.currentPos)
     IN  IF rendered.gameState # "CAPTURE_READY" \/ idx = 0
         THEN UNCHANGED << gameState, capturingId, captureTimerRef, intervals,
                           dirty >>
         ELSE LET target == rendered.nodes[idx] IN
              /\ Cardinality(intervals) < MaxIntervals
              /\ capturingId' = target.id
              /\ gameState' = "CAPTURING"
              /\ captureTimerRef' = FreshHandle
              /\ intervals' = intervals \cup
                   { [ handle |-> FreshHandle,
                       target |-> [ id |-> target.id, type |-> target.type,
                                    tier |-> target.tier ],
                       startTime |-> now ] }
              /\ dirty' = (dirty \/ capturingId' # capturingId
                                 \/ gameState' # gameState)
  /\ UNCHANGED << now, currentPos, startPos, heading, nodes, companions,
                  rewardLog, stats, captureProgress, isOutdoor, isIndoor,
                  manualOutdoor, manualHome, isDebugMode, rendered, effectDeps,
                  headingRef, headingAvailableRef, lastSpawnPosRef,
                  indoorStartRef, dismissEvacUntilRef,
                  lastOutdoorTickRef, watchIdRef, leakedWatch,
                  listening, pendingStart, carryTimeouts, evacTimeouts,
                  histVars >>

\* cancelCapture (App.tsx:639-647), from the capture button
CancelCapture ==
  /\ CaptureButton
  /\ intervals' = ClearCaptureTimer
  /\ captureTimerRef' = NULL
  /\ capturingId' = << >>
  /\ captureProgress' = 0
  /\ gameState' = "CAPTURE_READY"
  /\ dirty' = (dirty \/ capturingId' # capturingId
                     \/ captureProgress' # captureProgress
                     \/ gameState' # gameState)
  /\ UNCHANGED << now, currentPos, startPos, heading, nodes, companions,
                  rewardLog, stats, isOutdoor, isIndoor, manualOutdoor,
                  manualHome, isDebugMode, rendered, effectDeps, headingRef,
                  headingAvailableRef, lastSpawnPosRef, indoorStartRef,
                  dismissEvacUntilRef,
                  lastOutdoorTickRef, watchIdRef, leakedWatch, listening,
                  pendingStart, carryTimeouts, evacTimeouts, histVars >>

\* completeCapture(node) (App.tsx:649-682)
completeCapture(node) ==
  /\ Len(companions) < MaxRewards
  /\ intervals' = ClearCaptureTimer
  /\ captureTimerRef' = NULL
  /\ nodes' = MarkCaptured(nodes, node.id)
  /\ companions' = Append(companions, [ id |-> now, tier |-> node.tier ])
  /\ rewardLog' = Append(rewardLog, [ id |-> node.id, tier |-> node.tier,
                                      type |-> node.type ])
  /\ stats' = [ stats EXCEPT !.rewardsCollected = @ + 1 ]
  /\ capturingId' = << >>
  /\ captureProgress' = 0
  /\ gameState' = "CARRYING"
  /\ carryTimeouts' = carryTimeouts \cup { now + CARRYING_DELAY_MS }
  /\ dirty' = TRUE
  /\ effectDeps' = TRUE

\* one run of the interval callback of App.tsx:628-636
CaptureTick ==
  \E t \in intervals :
    LET elapsed == now - t.startTime
        progress == Progress(elapsed, getCaptureDurationMs(t.target.tier))
    IN  /\ IF progress >= PROGRESS_ONE
           THEN completeCapture(t.target)
           ELSE /\ captureProgress' = progress
                /\ dirty' = (dirty \/ captureProgress' # captureProgress)
                /\ UNCHANGED << gameState, nodes, companions, rewardLog, stats,
                                capturingId, effectDeps, captureTimerRef,
                                intervals, carryTimeouts >>
        /\ UNCHANGED << now, currentPos, startPos, heading, isOutdoor,
                        isIndoor, manualOutdoor, manualHome, isDebugMode,
                        rendered, headingRef, headingAvailableRef,
                        lastSpawnPosRef, indoorStartRef, dismissEvacUntilRef,
                  lastOutdoorTickRef,
                        watchIdRef, leakedWatch, listening, pendingStart,
                        evacTimeouts, histVars >>

\* the timeout of App.tsx:677-681
CarryTimeout ==
  \E due \in carryTimeouts :
    /\ now >= due
    /\ carryTimeouts' = carryTimeouts \ { due }
    /\ gameState' = IF gameStateRef = "CARRYING" THEN "OUTDOOR_SEARCH"
                    ELSE gameState
    /\ dirty' = (dirty \/ gameState' # gameState)
    /\ UNCHANGED << now, currentPos, startPos, heading, nodes, companions,
                    rewardLog, stats, capturingId, captureProgress, isOutdoor,
                    isIndoor, manualOutdoor, manualHome, isDebugMode, rendered,
                    effectDeps, refVars, pendingStart, intervals, evacTimeouts,
                    histVars >>

\* ---------------------------------------------------------------- evac
\* handleEvacuate sets the state and nothing else
EvacTimeoutNotScheduled == evacTimeouts

\* the setTimeout of App.tsx:691-693
EvacTimeoutScheduled == evacTimeouts \cup { now + EVAC_DURATION_MS }

\* handleEvacuate (App.tsx:684-694)
handleEvacuate ==
  /\ gameState' = "EVAC_ANIM"
  /\ evacTimeouts' = EvacTimeoutScheduled
  /\ dirty' = TRUE
  /\ UNCHANGED << now, currentPos, startPos, heading, nodes, companions,
                  rewardLog, stats, capturingId, captureProgress, isOutdoor,
                  isIndoor, manualOutdoor, manualHome, isDebugMode, rendered,
                  effectDeps, refVars, pendingStart, intervals, carryTimeouts,
                  histVars >>

\* the two buttons that call it (GameUI.tsx:256-263, 265-272)
EmergencyEvacuate == EmergencyEvacButton /\ handleEvacuate

ConfirmEvacuate == ConfirmEvacButton /\ handleEvacuate

\* the timeout of App.tsx:691-693
EvacTimeout ==
  \E due \in evacTimeouts :
    /\ now >= due
    /\ evacTimeouts' = evacTimeouts \ { due }
    /\ gameState' = "RESULT"
    /\ dirty' = (dirty \/ gameState' # gameState)
    /\ UNCHANGED << now, currentPos, startPos, heading, nodes, companions,
                    rewardLog, stats, capturingId, captureProgress, isOutdoor,
                    isIndoor, manualOutdoor, manualHome, isDebugMode, rendered,
                    effectDeps, refVars, pendingStart, intervals,
                    carryTimeouts, histVars >>

\* handleToggleOutdoorOverride (App.tsx:696-705)
HandleToggleOutdoorOverride ==
  /\ Hud
  /\ manualOutdoor' = ~manualOutdoor
  /\ manualHome' = IF manualOutdoor' THEN FALSE ELSE manualHome
  /\ isOutdoor' = IF manualOutdoor' THEN TRUE ELSE isOutdoor
  /\ dirty' = TRUE
  /\ UNCHANGED << now, gameState, currentPos, startPos, heading, nodes,
                  companions, rewardLog, stats, capturingId, captureProgress,
                  isIndoor, isDebugMode, rendered, effectDeps, refVars,
                  pendingStart, timerVars, histVars >>

\* the test of App.tsx:714
HomeOverrideTriggersEvac ==
  /\ currentPosRef # NULL
  /\ startPosRef # NULL
  /\ getDistanceFromLatLonInMeters(currentPosRef, startPosRef) < HOME_RADIUS
  /\ Len(companionsRef) > 0

\* the home override switched on with the outdoor override left as it is
OutdoorKeptOnHomeToggle(next) == manualOutdoor

\* App.tsx:710: switching the home override on clears the outdoor override
OutdoorAfterHomeToggle(next) == IF next THEN FALSE ELSE manualOutdoor

\* handleToggleHomeOverride (App.tsx:707-724)
HandleToggleHomeOverride ==
  /\ Hud
  /\ manualHome' = ~manualHome
  /\ manualOutdoor' = OutdoorAfterHomeToggle(manualHome')
  /\ isIndoor' = IF manualHome' THEN (isIndoor \/ HomeOverrideTriggersEvac)
                 ELSE FALSE
  /\ gameState' = IF manualHome' /\ HomeOverrideTriggersEvac THEN "EVAC_READY"
                  ELSE gameState
  /\ dirty' = TRUE
  /\ UNCHANGED << now, currentPos, startPos, heading, nodes, companions,
                  rewardLog, stats, capturingId, captureProgress, isOutdoor,
                  isDebugMode, rendered, effectDeps, refVars, pendingStart,
                  timerVars, histVars >>

\* handleContinueExploring (App.tsx:726-731)
HandleContinueExploring ==
  /\ ContinueButton
  /\ dismissEvacUntilRef' = now + DISMISS_EVAC_MS
  /\ manualHome' = FALSE
  /\ gameState' = "OUTDOOR_SEARCH"
  /\ dirty' = TRUE
  /\ UNCHANGED << now, currentPos, startPos, heading, nodes, companions,
                  rewardLog, stats, capturingId, captureProgress, isOutdoor,
                  isIndoor, manualOutdoor, isDebugMode, rendered, effectDeps,
                  headingRef, headingAvailableRef, lastSpawnPosRef,
                  indoorStartRef,
                  lastOutdoorTickRef, captureTimerRef, watchIdRef, leakedWatch,
                  listening, pendingStart, timerVars, histVars >>

\* handleReset (App.tsx:733-776), from the result screen
HandleReset ==
  /\ ResultScreen
  /\ gameState' = "IDLE"
  /\ nodes' = << >>
  /\ companions' = << >>
  /\ rewardLog' = << >>
  /\ stats' = resetStats
  /\ startPos' = NULL
  /\ currentPos' = NULL
  /\ isDebugMode' = FALSE
  /\ isOutdoor' = FALSE
  /\ isIndoor' = FALSE
  /\ manualOutdoor' = FALSE
  /\ manualHome' = FALSE
  /\ capturingId' = << >>
  /\ captureProgress' = 0
  /\ heading' = 0
  /\ intervals' = ClearCaptureTimer
  /\ captureTimerRef' = NULL
  /\ lastSpawnPosRef' = NULL
  /\ indoorStartRef' = NULL
  /\ lastOutdoorTickRef' = NULL
  /\ headingAvailableRef' = FALSE
  /\ watchIdRef' = FALSE
  /\ candidateSince' = NULL
  /\ holdSince' = NULL
  /\ dirty' = TRUE
  /\ effectDeps' = TRUE
  /\ UNCHANGED << now, rendered, headingRef, dismissEvacUntilRef, leakedWatch,
                  listening, pendingStart, carryTimeouts, evacTimeouts >>

\* ---------------------------------------------------------------- time
\* an interval whose next tick completes its capture
Due(t) == now - t.startTime >= getCaptureDurationMs(t.target.tier)

\* something runs whose course depends on the clock
ClockMatters ==
  \/ pendingStart > 0
  \/ startPos # NULL
  \/ intervals # {}
  \/ carryTimeouts \cup evacTimeouts # {}

\* the clock moves on once the pending render has run, no timeout is due and
\* no interval is due to complete
Advance ==
  /\ ~dirty
  /\ ClockMatters
  /\ \A due \in carryTimeouts \cup evacTimeouts : due > now
  /\ \A t \in intervals : Len(companions) < MaxRewards => ~Due(t)
  /\ \E t \in TimePoints :
       /\ t > now
       /\ now' = t
  /\ UNCHANGED << reactVars, rendered, dirty, stale, effectDeps, refVars,
                  pendingStart, timerVars, histVars, probe >>

\* a handler call: the browser runs it once the pending render is done, or
\* (MaxStale times in a run) before it
Call(handler) ==
  /\ ~dirty \/ stale < MaxStale
  /\ stale' = IF dirty THEN stale + 1 ELSE stale
  /\ UNCHANGED probe
  /\ handler

\* a handler call that waits for the pending render
Settled(handler) ==
  /\ ~dirty
  /\ UNCHANGED << stale, probe >>
  /\ handler

\* the program with every input
Next ==
  \/ Call(HandleStart)
  \/ Call(StartSuccess)
  \/ Call(StartError)
  \/ Call(GpsUpdate)
  \/ Call(HandleOrientation)
  \/ Call(HandleSimulateMove)
  \/ Call(HandleSimulateTurn)
  \/ Call(ToggleDebug)
  \/ Render
  \/ Call(StartCapture)
  \/ Call(CancelCapture)
  \/ Call(CaptureTick)
  \/ Call(CarryTimeout)
  \/ Call(EmergencyEvacuate)
  \/ Call(ConfirmEvacuate)
  \/ Call(EvacTimeout)
  \/ Call(HandleToggleOutdoorOverride)
  \/ Call(HandleToggleHomeOverride)
  \/ Call(HandleContinueExploring)
  \/ Call(HandleReset)
  \/ Advance

Spec == Init /\ [][Next]_vars

\* searching and capturing outdoors: the walk, the capture button and the
\* capture timers
NextCapture ==
  \/ Settled(HandleStart)
  \/ Call(StartSuccess)
  \/ Call(GpsOutdoors)
  \/ Render
  \/ Call(StartCapture)
  \/ Call(CancelCapture)
  \/ Call(CaptureTick)
  \/ Call(CarryTimeout)
  \/ Advance

SpecCapture == Init /\ [][NextCapture]_vars

\* the indoor detection: the walk and the home override
NextIndoor ==
  \/ Settled(HandleStart)
  \/ Call(StartSuccess)
  \/ Call(GpsPlain)
  \/ Render
  \/ Call(HandleToggleHomeOverride)
  \/ Advance

SpecIndoor == Init /\ [][NextIndoor]_vars

\* a whole session: capture, the way home, the evac offer, the evacuation
\* and the reset, every handler running on the render before it
NextEvac ==
  \/ Settled(HandleStart)
  \/ Settled(StartSuccess)
  \/ Settled(GpsIndoors)
  \/ Render
  \/ Settled(StartCapture)
  \/ Settled(CaptureTick)
  \/ Settled(CarryTimeout)
  \/ Settled(HandleToggleHomeOverride)
  \/ Settled(ConfirmEvacuate)
  \/ Settled(EvacTimeout)
  \/ Settled(HandleContinueExploring)
  \/ Settled(HandleReset)
  \/ Advance

SpecEvac == Init /\ [][NextEvac]_vars

\* the evac offer: capture, the way home, the offer, its dismissal and the
\* evacuation, a handler running before the pending render where it can
NextOffer ==
  \/ Settled(HandleStart)
  \/ Call(StartSuccess)
  \/ Call(GpsIndoors)
  \/ Render
  \/ Call(StartCapture)
  \/ Call(CaptureTick)
  \/ Call(CarryTimeout)
  \/ Call(ConfirmEvacuate)
  \/ Call(EvacTimeout)
  \/ Call(HandleContinueExploring)
  \/ Advance

SpecOffer == Init /\ [][NextOffer]_vars

\* the emergency evacuation: the walk, the capture, the emergency button, the
\* evac timeout and the reset, every handler running on the render before it
NextEmergency ==
  \/ Settled(HandleStart)
  \/ Settled(StartSuccess)
  \/ Settled(GpsOutdoors)
  \/ Render
  \/ Settled(StartCapture)
  \/ Settled(CaptureTick)
  \/ Settled(CarryTimeout)
  \/ Settled(EmergencyEvacuate)
  \/ Settled(EvacTimeout)
  \/ Settled(HandleReset)
  \/ Advance

SpecEmergency == Init /\ [][NextEmergency]_vars

\* the handlers that switch an override during a session: both toggles and
\* continue exploring, in a session that reaches the evac offer
NextOverride ==
  \/ Settled(HandleStart)
  \/ Settled(StartSuccess)
  \/ Settled(GpsIndoors)
  \/ Render
  \/ Settled(StartCapture)
  \/ Settled(CaptureTick)
  \/ Settled(CarryTimeout)
  \/ Settled(HandleToggleOutdoorOverride)
  \/ Settled(HandleToggleHomeOverride)
  \/ Settled(HandleContinueExploring)
  \/ Advance

SpecOverride == Init /\ [][NextOverride]_vars

\* the start of a session: the start button, the callbacks of
\* getCurrentPosition, position and compass updates, each running before the
\* pending render where it can
NextStart ==
  \/ Call(HandleStart)
  \/ Call(StartSuccess)
  \/ Call(StartError)
  \/ Call(GpsOutdoors)
  \/ Call(HandleOrientation)
  \/ Render
  \/ Advance

SpecStart == Init /\ [][NextStart]_vars

\* aiming: compass readings, the walk and the capture button
NextReticle ==
  \/ Settled(HandleStart)
  \/ Settled(StartSuccess)
  \/ Call(GpsOutdoors)
  \/ Call(HandleOrientation)
  \/ Render
  \/ Call(StartCapture)
  \/ Call(CaptureTick)
  \/ Call(CarryTimeout)
  \/ Advance

SpecReticle == Init /\ [][NextReticle]_vars

\* choosing among several nodes in reach
NextNearest ==
  \/ Settled(HandleStart)
  \/ Settled(StartSuccess)
  \/ Settled(GpsBetweenNodes)
  \/ Settled(HandleOrientation)
  \/ Render
  \/ Settled(StartCapture)
  \/ Settled(CaptureTick)
  \/ Settled(CarryTimeout)
  \/ Advance

SpecNearest == Init /\ [][NextNearest]_vars

\* a node in reach of home: compass readings that turn the spawn south, the
\* walk out and back, a capture and the wait under the roof
NextHomeNode ==
  \/ Settled(HandleStart)
  \/ Settled(StartSuccess)
  \/ Settled(GpsPlain)
  \/ Settled(HandleOrientation)
  \/ Render
  \/ Settled(StartCapture)
  \/ Settled(CaptureTick)
  \/ Settled(CarryTimeout)
  \/ Advance

SpecHomeNode == Init /\ [][NextHomeNode]_vars

\* the outdoor flag at the start of a session: both override toggles, and
\* fixes of either accuracy that may be processed before the pending render
NextFlags ==
  \/ Settled(HandleStart)
  \/ Settled(StartSuccess)
  \/ Call(GpsMoving)
  \/ Render
  \/ Settled(HandleToggleOutdoorOverride)
  \/ Settled(HandleToggleHomeOverride)

SpecFlags == Init /\ [][NextFlags]_vars

\* rollRewardTier on every combination of readings
InitTier == AppInit /\ probe \in TierInputs

NextTier == RollRewardTier

SpecTier == InitTier /\ [][NextTier]_vars

\* gpsToLocalVector on every origin, distance and cardinal bearing
InitFrame == AppInit /\ probe \in FrameInputs

NextFrame == GpsToLocalVector

SpecFrame == InitFrame /\ [][NextFrame]_vars

\* the evacuation and what follows it without the player: position updates,
\* renders, the evac timeout and the clock; the browser runs a due timeout,
\* React runs a pending render and the clock goes on
NextAnim ==
  \/ Settled(HandleStart)
  \/ Settled(StartSuccess)
  \/ Settled(GpsPlain)
  \/ Render
  \/ Settled(EmergencyEvacuate)
  \/ Settled(EvacTimeout)
  \/ Settled(HandleReset)
  \/ Advance

SpecAnim ==
  /\ Init
  /\ [][NextAnim]_vars
  /\ WF_vars(Render)
  /\ SF_vars(Settled(EvacTimeout))
  /\ SF_vars(Advance)

\* ---------------------------------------------------------------- claims
\* the node of the session's node set at index i keeps its place and its id
SameNode(i) == i \in DOMAIN nodes' /\ nodes'[i].id = nodes[i].id

\* the reward record a completion has just appended
NewRecord == rewardLog'[Len(rewardLog')]

Completes == Len(rewardLog') > Len(rewardLog)

CapturedCount == Cardinality({ i \in DOMAIN nodes : nodes[i].captured })

\* C1: discovery is a one-way latch: a node whose discovered flag is true
\* keeps it through every step (position update, heading update, spawn,
\* capture, cancel, timer) other than handleReset.
C1_DiscoveryLatch ==
  [][ HandleReset
      \/ \A i \in DOMAIN nodes :
           nodes[i].discovered => SameNode(i) /\ nodes'[i].discovered ]_vars

\* a node that was discovered and is now out of the discovery radius
C1_Witness ==
  /\ currentPos # NULL
  /\ \E i \in DOMAIN nodes :
       /\ nodes[i].discovered
       /\ getDistanceFromLatLonInMeters(currentPos, nodes[i].geoPosition)
            >= DISCOVER_RADIUS

\* C2: captured is terminal: a node whose captured flag is true keeps it
\* through every step other than handleReset, and startCapture never binds a
\* captured node as its target.
C2_CapturedTerminal ==
  [][ HandleReset
      \/ /\ \A i \in DOMAIN nodes :
              nodes[i].captured => SameNode(i) /\ nodes'[i].captured
         /\ (capturingId' # << >> /\ capturingId' # capturingId)
              => \A i \in DOMAIN nodes :
                   nodes[i].id = capturingId' => ~nodes[i].captured ]_vars

\* C3: cancelCapture on a capture in progress leaves the node set, the
\* companions, the reward log and the stats as they were, returns
\* captureProgress to 0, and leaves no interval pending that would complete
\* the cancelled target.
C3_CancelNoCredit ==
  [][ (CancelCapture /\ capturingId # << >>)
        => /\ captureProgress' = 0
           /\ UNCHANGED << nodes, companions, rewardLog, stats >>
           /\ \A t \in intervals' : t.target.id # capturingId ]_vars

\* C4: a completion marks its target captured, adds exactly one companion
\* and one reward record, raises rewardsCollected by exactly 1, and leaves
\* no interval pending for that target (no further tick is processed).
C4_CompletesOnce ==
  [][ Completes
        => /\ Len(rewardLog') = Len(rewardLog) + 1
           /\ Len(companions') = Len(companions) + 1
           /\ stats'.rewardsCollected = stats.rewardsCollected + 1
           /\ \A i \in DOMAIN nodes' :
                nodes'[i].id = NewRecord.id => nodes'[i].captured
           /\ \A t \in intervals' : t.target.id # NewRecord.id ]_vars

\* C5: a completion event for a node that is already captured is ignored: no
\* step adds a reward record, a companion or a reward count for a node whose
\* captured flag is already true.
C5_NoDoubleAward ==
  [][ \A i \in DOMAIN nodes :
        nodes[i].captured
          => ~ /\ \/ Completes
                  \/ Len(companions') > Len(companions)
                  \/ stats'.rewardsCollected > stats.rewardsCollected
               /\ NewRecord.id = nodes[i].id ]_vars

\* C6: between session start and reset, rewardsCollected, the number of
\* companions, the length of the reward log and the number of captured nodes
\* are equal, and the reward log changes only by appending one record.
C6_RewardCounts ==
  [][ /\ startPos' # NULL
        => /\ stats'.rewardsCollected = Len(companions')
           /\ Len(companions') = Len(rewardLog')
           /\ Len(rewardLog') = CapturedCount'
      /\ \/ HandleReset
         \/ rewardLog' = rewardLog
         \/ /\ Len(rewardLog') = Len(rewardLog) + 1
            /\ SubSeq(rewardLog', 1, Len(rewardLog)) = rewardLog ]_vars

\* a position update that handleLocationUpdate processes (past App.tsx:428)
ProcessedUpdate == startPosRef # NULL /\ GpsUpdate

\* the distance to home the update computes (App.tsx:489)
DistanceToHome == getDistanceFromLatLonInMeters(currentPos', startPos)

\* C7: with manualHome off, a processed position update leaves indoorDetected
\* true only if every processed update since some sample at least
\* INDOOR_HOLD_MS old was an indoor candidate; a non-candidate sample ends the
\* run, so the hold time starts again from zero.
C7_IndoorNeverEarly ==
  [][ (ProcessedUpdate /\ ~manualHome /\ isIndoor')
        => /\ candidateSince' # NULL
           /\ now - candidateSince' >= INDOOR_HOLD_MS ]_vars

\* C8: with manualHome off, a processed position update that closes a run of
\* consecutive candidate samples spanning at least INDOOR_HOLD_MS sets
\* indoorDetected to true.
C8_IndoorAfterHold ==
  [][ (ProcessedUpdate /\ holdSince' # NULL
         /\ now - holdSince' >= INDOOR_HOLD_MS)
        => isIndoor' ]_vars

C10_EvacReadyIff ==
  [][ ProcessedUpdate
        => LET holds == /\ DistanceToHome < HOME_RADIUS
                        /\ Len(companions) > 0
                        /\ isIndoor'
                        /\ gameState # "EVAC_ANIM"
                        /\ now > dismissEvacUntilRef
           IN  /\ holds => gameState' = "EVAC_READY"
               /\ (gameState' = "EVAC_READY" /\ gameState # "EVAC_READY")
                    => holds ]_vars

\* C11: a processed position update that finds the state EVAC_READY and
\* computes distanceToHome >= HOME_RADIUS or indoorDetected false sets the
\* state to OUTDOOR_SEARCH.
C11_EvacOfferCancelled ==
  [][ (ProcessedUpdate /\ gameState = "EVAC_READY"
         /\ (DistanceToHome >= HOME_RADIUS \/ ~isIndoor'))
        => gameState' = "OUTDOOR_SEARCH" ]_vars

\* C12: once the state is EVAC_ANIM the only next state is RESULT: no step
\* (cancel, continue exploring, override toggle, position update, capture
\* tick, CARRYING timeout) takes the state from EVAC_ANIM to anything else.
C12_EvacAnimOnlyToResult ==
  [][ gameState = "EVAC_ANIM" => gameState' \in {"EVAC_ANIM", "RESULT"} ]_vars

\* the last instant of the clock
LastTimePoint == CHOOSE t \in TimePoints : \A u \in TimePoints : u <= t

\* C13: once the state is EVAC_ANIM (with EVAC_DURATION_MS left within the
\* clock's range), the state eventually becomes RESULT with no player input.
C13_EvacEndsInResult ==
  (gameState = "EVAC_ANIM" /\ now + EVAC_DURATION_MS <= LastTimePoint)
    ~> gameState = "RESULT"

\* the result reached by the evac timeout, EVAC_DURATION_MS after the button
C13_Witness ==
  /\ gameState = "RESULT"
  /\ startPos # NULL
  /\ evacTimeouts = {}
  /\ now >= stats.startTime + EVAC_DURATION_MS

\* C14: once the state is RESULT it changes only through handleReset, which
\* sets IDLE: no position update, render effect, toggle or timer takes the
\* state out of RESULT.
C14_ResultOnlyToIdle ==
  [][ gameState = "RESULT"
        => \/ gameState' = "RESULT"
           \/ HandleReset /\ gameState' = "IDLE" ]_vars

\* the values handleReset leaves (App.tsx:735-754)
AfterReset ==
  /\ gameState = "IDLE"
  /\ nodes = << >> /\ companions = << >> /\ rewardLog = << >>
  /\ stats = resetStats
  /\ startPos = NULL /\ currentPos = NULL
  /\ ~manualOutdoor /\ ~manualHome
  /\ capturingId = << >> /\ captureProgress = 0

C16_ResetStopsTimers ==
  [][ (startPos = NULL /\ (CaptureTick \/ CarryTimeout \/ EvacTimeout))
        => UNCHANGED << gameState, nodes, companions, rewardLog, stats >> ]_vars

\* C17: startCapture does nothing when the state is not CAPTURE_READY or no
\* node is eligible (discovered, not captured, within CAPTURE_RADIUS, in the
\* reticle): the state, capturingId and the capture timer stay as they are.
C17_BeginCaptureNoOp ==
  [][ ( /\ StartCapture
        /\ \/ gameState # "CAPTURE_READY"
           \/ currentPos = NULL
           \/ FirstEligible(nodes, currentPos) = 0 )
        => UNCHANGED << gameState, capturingId, captureTimerRef, intervals >>
    ]_vars

\* C18: handleEvacuate with no companion does nothing: the state does not
\* become EVAC_ANIM and no evac timeout is scheduled.
C18_EvacuateNeedsCompanion ==
  [][ (companions = << >> /\ (EmergencyEvacuate \/ ConfirmEvacuate))
        => UNCHANGED << gameState, evacTimeouts >> ]_vars

\* C19: the outdoor override and the home override are never both on.
C19_OverridesExclusive == ~(manualOutdoor /\ manualHome)

\* the home override switched on while the render before shows the outdoor
\* override on
C19_Witness ==
  /\ manualHome
  /\ ~manualOutdoor
  /\ rendered.manualOutdoor
  /\ ~rendered.manualHome

\* C20: a processed position update computes the flags from the overrides as
\* the last toggle left them, whether or not the render has run since: with
\* the home override on the update sets isIndoor and clears isOutdoor, and
\* with the outdoor override on (home override off) it sets isOutdoor.
C20_OverrideEffectiveAtOnce ==
  [][ ProcessedUpdate
        => /\ manualHome => (isIndoor' /\ ~isOutdoor')
           /\ (manualOutdoor /\ ~manualHome) => isOutdoor' ]_vars

\* C21: from the start of a session to its reset no step lowers
\* distanceWalked, outdoorTimeMs or rewardsCollected: every position update,
\* capture start, cancel, capture tick, timeout and render leaves each of the
\* three at its value or above. (A start callback opens a session and a reset
\* ends one; both set the counters to zero.)
C21_StatsNeverDecrease ==
  [][ (startPos # NULL /\ ~HandleReset /\ ~StartSuccess /\ ~StartError)
        => /\ stats'.distanceWalked >= stats.distanceWalked
           /\ stats'.outdoorTimeMs >= stats.outdoorTimeMs
           /\ stats'.rewardsCollected >= stats.rewardsCollected ]_vars

\* a session that walked out and back, spent time outdoors and captured a
\* node, standing where the update before left it
C21_Witness ==
  /\ startPos # NULL
  /\ stats.distanceWalked > 0
  /\ stats.outdoorTimeMs > 0
  /\ stats.rewardsCollected > 0
  /\ currentPos = startPos

\* the weights of a finished tier roll
Rolled == probe.fn = "rollRewardTier" /\ probe.done

\* C22: whatever the distance walked, the session's duration and the
\* companion count, the Basic, Advanced and Core weights of the tier roll
\* each lie between 0 and 1 and sum to exactly 1 (hundredths: 0..100, 100).
C22_WeightsSumToOne ==
  Rolled =>
    /\ probe.weights.basic \in 0..100
    /\ probe.weights.advanced \in 0..100
    /\ probe.weights.core \in 0..100
    /\ probe.weights.basic + probe.weights.advanced + probe.weights.core = 100

\* a roll with every bonus earned: the largest Advanced and Core weights
C22_Witness ==
  /\ Rolled
  /\ probe.distanceWalked > 600
  /\ durationMs(probe.startTime, probe.nowAt) > 10 * MS_PER_MIN
  /\ probe.companionsCount >= 5
  /\ probe.weights.advanced = ADVANCED_WEIGHT_CAP

\* the probability of an Advanced or Core tier, in hundredths
AdvancedCoreMass(distance, duration, companionsCount) ==
  LET w == TierWeights(distance, duration, companionsCount)
  IN  w.advanced + w.core

\* C23: with the other two readings held fixed, a larger distance walked, a
\* longer session or a larger companion count never gives the tier roll a
\* smaller combined Advanced + Core probability.
C23_RewardWeightMonotone ==
  Rolled =>
    LET duration == durationMs(probe.startTime, probe.nowAt)
        mass == probe.weights.advanced + probe.weights.core
    IN  /\ \A d \in DistanceSet :
             d >= probe.distanceWalked
               => AdvancedCoreMass(d, duration, probe.companionsCount) >= mass
        /\ \A t \in NowSet :
             t >= probe.nowAt
               => AdvancedCoreMass(probe.distanceWalked,
                                   durationMs(probe.startTime, t),
                                   probe.companionsCount) >= mass
        /\ \A c \in CountSet :
             c >= probe.companionsCount
               => AdvancedCoreMass(probe.distanceWalked, duration, c) >= mass

\* a roll just below a threshold of each reading: one more metre, one more
\* millisecond or one more companion raises the Advanced + Core probability
C23_Witness ==
  /\ Rolled
  /\ LET duration == durationMs(probe.startTime, probe.nowAt)
         mass == probe.weights.advanced + probe.weights.core
     IN  /\ \E d \in DistanceSet :
              /\ d > probe.distanceWalked
              /\ AdvancedCoreMass(d, duration, probe.companionsCount) > mass
         /\ \E t \in NowSet :
              /\ t > probe.nowAt
              /\ AdvancedCoreMass(probe.distanceWalked,
                                  durationMs(probe.startTime, t),
                                  probe.companionsCount) > mass
         /\ \E c \in CountSet :
              /\ c > probe.companionsCount
              /\ AdvancedCoreMass(probe.distanceWalked, duration, c) > mass

\* C24: a position update processed while a capture is in progress leaves
\* capturingId and the node each capture interval is bound to as they are,
\* and the completing tick marks captured the node its interval was bound to
\* by startCapture, and no other.
C24_TargetFixedDuringCapture ==
  [][ /\ (ProcessedUpdate /\ gameState = "CAPTURING")
           => /\ capturingId' = capturingId
              /\ intervals' = intervals
      /\ Completes
           => \E t \in intervals :
                /\ NewRecord.id = t.target.id
                /\ \A i \in DOMAIN nodes :
                     /\ nodes[i].id = t.target.id => nodes'[i].captured
                     /\ (nodes'[i].captured /\ ~nodes[i].captured)
                          => nodes[i].id = t.target.id ]_vars

\* a capture in progress, shown by the last render with the player in range
\* of the bound node, after an update that moved the player out of its range
C24_Witness ==
  /\ gameState = "CAPTURING"
  /\ rendered.gameState = "CAPTURING"
  /\ currentPos # NULL
  /\ rendered.currentPos # NULL
  /\ \E t \in intervals :
       /\ t.target.id = capturingId
       /\ \E i \in DOMAIN nodes :
            /\ nodes[i].id = capturingId
            /\ getDistanceFromLatLonInMeters(rendered.currentPos,
                                             nodes[i].geoPosition)
                 < CAPTURE_RADIUS
            /\ getDistanceFromLatLonInMeters(currentPos, nodes[i].geoPosition)
                 >= CAPTURE_RADIUS

\* C25: from the start of a session to its reset no step changes the origin
\* (startPos): no position update, capture, timer, render or start callback.
C25_OriginFixed ==
  [][ (startPos # NULL /\ ~HandleReset) => startPos' = startPos ]_vars

\* C26: gpsToLocalVector maps a target 50 m due north of the origin to
\* x = 0, z = -50 and a target 50 m due east to x = 50, z = 0 (north is -Z,
\* east is +X).
C26_LocalFrame ==
  (probe.fn = "gpsToLocalVector" /\ probe.done /\ probe.distanceMeters = 50)
    => /\ probe.bearing = 0 => probe.vector = << 0, 0, -50 >>
       /\ probe.bearing = 90 => probe.vector = << 50, 0, 0 >>

\* the vector of a target 50 m due north of an origin off the reference point
C26_Witness ==
  /\ probe.fn = "gpsToLocalVector"
  /\ probe.done
  /\ probe.distanceMeters = 50
  /\ probe.bearing = 0
  /\ probe.origin.north # 0
  /\ probe.origin.east # 0
  /\ probe.vector[3] = -50

\* C27: cancelCapture changes the state (to CAPTURE_READY) only when the
\* state is CAPTURING; called in any other state it leaves the state as it
\* is.
C27_EndCaptureOnlyWhenCapturing ==
  [][ (CancelCapture /\ gameState # "CAPTURING") => gameState' = gameState
    ]_vars

\* the outdoor flag the overrides and a fix's readings call for
ExpectedOutdoor(geoHeading, accuracy, speed) ==
  IF manualHome THEN FALSE
  ELSE IF manualOutdoor THEN TRUE
  ELSE /\ accuracy # NULL
       /\ accuracy <= OUTDOOR_ACCURACY_MAX
       /\ \/ headingAvailableRef
          \/ geoHeading # NULL
          \/ (speed # NULL /\ 10 * speed > 3)

\* C28: after every processed position update isOutdoor is false if
\* manualHome is on, otherwise true if manualOutdoor is on, otherwise true
\* exactly when the fix has an accuracy of at most OUTDOOR_ACCURACY_MAX and a
\* heading fix exists or the speed is above 0.3 m/s.
C28_EffectiveOutdoor ==
  [][ \A newPos \in PosSet, geoHeading \in GeoHeadingSet,
         accuracy \in AccuracySet, speed \in SpeedSet :
        ( /\ startPosRef # NULL
          /\ UNCHANGED isDebugMode
          /\ handleLocationUpdate(newPos, geoHeading, accuracy, speed) )
          => isOutdoor' = ExpectedOutdoor(geoHeading, accuracy, speed) ]_vars

\* C29: switching the home override on makes isIndoor true in that very step,
\* whatever the distance to home and the number of companions, and every
\* position update processed while the override is on leaves isIndoor true.
C29_HomeOverrideIndoor ==
  [][ /\ (HandleToggleHomeOverride /\ manualHome') => isIndoor'
      /\ \A newPos \in PosSet, geoHeading \in GeoHeadingSet,
            accuracy \in AccuracySet, speed \in SpeedSet :
           ( /\ manualHome
             /\ startPosRef # NULL
             /\ UNCHANGED isDebugMode
             /\ handleLocationUpdate(newPos, geoHeading, accuracy, speed) )
             => isIndoor' ]_vars

\* the eligibility test as the claim states it, for a node, a position and
\* the current heading
CaptureEligible(node, pos) ==
  /\ node.discovered
  /\ ~node.captured
  /\ Abs(node.geoPosition - pos) < CAPTURE_RADIUS
  /\ \/ ~headingAvailableRef
     \/ AngleDelta(IF node.geoPosition < pos THEN 180 ELSE 0, heading)
          <= RETICLE_ANGLE_DEG

\* C30: when the readiness effect runs outside CAPTURING and EVAC_ANIM it
\* leaves the state CAPTURE_READY exactly when some node is discovered, not
\* captured, nearer than CAPTURE_RADIUS and (no heading fix obtained, or
\* within the reticle half-angle of the heading); startCapture binds a target
\* exactly when the state it sees is CAPTURE_READY and some node passes the
\* same test at the position it sees, and the node it binds passes the test.
C30_EligibilityTest ==
  [][ /\ ( /\ Render
           /\ effectDeps \/ gameState # rendered.gameState
           /\ currentPos # NULL
           /\ gameState \notin {"CAPTURING", "EVAC_ANIM"} )
        => ( gameState' = "CAPTURE_READY"
             <=> \E i \in DOMAIN nodes : CaptureEligible(nodes[i], currentPos) )
      /\ ( /\ StartCapture
           /\ rendered.gameState = "CAPTURE_READY"
           /\ rendered.currentPos # NULL )
        => ( /\ intervals' # intervals
               <=> \E i \in DOMAIN rendered.nodes :
                     CaptureEligible(rendered.nodes[i], rendered.currentPos)
             /\ intervals' # intervals
                  => \E i \in DOMAIN rendered.nodes :
                       /\ rendered.nodes[i].id = capturingId'
                       /\ CaptureEligible(rendered.nodes[i],
                                          rendered.currentPos) )
    ]_vars

\* a capture was begun on a node inside the reticle after a heading fix
C30_Witness ==
  /\ headingAvailableRef
  /\ gameState = "CAPTURING"
  /\ \E i \in DOMAIN nodes :
       /\ nodes[i].id = capturingId
       /\ CaptureEligible(nodes[i], currentPos)

\* C31: when startCapture binds a target, no capture-eligible node is nearer
\* to the player's current position than the node it binds.
C31_NearestBound ==
  [][ (StartCapture /\ intervals' # intervals)
        => \A i, j \in DOMAIN nodes :
             ( /\ nodes[i].id = capturingId'
               /\ CaptureEligible(nodes[i], currentPos)
               /\ CaptureEligible(nodes[j], currentPos) )
               => Abs(nodes[i].geoPosition - currentPos)
                    <= Abs(nodes[j].geoPosition - currentPos) ]_vars

\* C32: a render whose readiness effect ran and that leaves nothing pending,
\* with the state in {OUTDOOR_SEARCH, CAPTURE_READY}, leaves the state
\* CAPTURE_READY exactly when some node is capture-eligible.
C32_ReadyIffEligible ==
  [][ ( /\ Render
        /\ effectDeps \/ gameState # rendered.gameState
        /\ ~dirty'
        /\ gameState' \in {"OUTDOOR_SEARCH", "CAPTURE_READY"} )
        => ( gameState' = "CAPTURE_READY"
             <=> \E i \in DOMAIN nodes' :
                   CaptureEligible(nodes'[i], currentPos') ) ]_vars

\* a settled session back in OUTDOOR_SEARCH beside the node it captured
C32_Witness ==
  /\ ~dirty
  /\ gameState = "OUTDOOR_SEARCH"
  /\ \E i \in DOMAIN nodes :
       /\ nodes[i].captured
       /\ Abs(nodes[i].geoPosition - currentPos) < CAPTURE_RADIUS

\* C33: heading updates are settled like position updates: once no render is
\* pending, a session in {OUTDOOR_SEARCH, CAPTURE_READY} is in CAPTURE_READY
\* exactly when some node is capture-eligible for the heading it has, so a
\* turn that takes the only eligible node out of the reticle cone has moved
\* CAPTURE_READY to OUTDOOR_SEARCH and a turn that brings a discovered
\* in-range node into the cone has moved OUTDOOR_SEARCH to CAPTURE_READY.
C33_ReevaluatedOnHeading ==
  ( /\ ~dirty
    /\ currentPos # NULL
    /\ gameState \in {"OUTDOOR_SEARCH", "CAPTURE_READY"} )
    => ( gameState = "CAPTURE_READY"
         <=> \E i \in DOMAIN nodes : CaptureEligible(nodes[i], currentPos) )

\* C34: without input CARRYING is left only by its timeout: a render leaves a
\* session in CARRYING there, and the timeout of CARRYING_DELAY_MS sets
\* OUTDOOR_SEARCH when the state is still CARRYING and changes nothing when
\* it is not.
C34_CarryingTransient ==
  [][ /\ (Render /\ gameState = "CARRYING") => gameState' = "CARRYING"
      /\ CarryTimeout =>
           gameState' = IF gameState = "CARRYING" THEN "OUTDOOR_SEARCH"
                        ELSE gameState ]_vars

C40_ResetClearsSuppression ==
  [][ /\ HandleReset => dismissEvacUntilRef' < now
      /\ ( /\ ProcessedUpdate
           /\ dismissEvacUntilRef - DISMISS_EVAC_MS < stats.startTime
           /\ DistanceToHome < HOME_RADIUS
           /\ Len(companions) > 0
           /\ isIndoor'
           /\ gameState # "EVAC_ANIM" )
        => gameState' = "EVAC_READY" ]_vars

\* C36: a processed position update appends a batch exactly when fewer than
\* MIN_ACTIVE_NODES nodes of the session are uncaptured or the new position
\* is at least the spawn step from the last spawn position; every node it
\* appends is undiscovered and uncaptured, and the nodes that were there keep
\* their place, id, type, tier, geoPosition and captured flag.
C36_SpawnWhenNeeded ==
  [][ ProcessedUpdate =>
        LET active == { i \in DOMAIN nodes : ~nodes[i].captured }
            far == /\ lastSpawnPosRef # NULL
                   /\ Abs(currentPos' - lastSpawnPosRef) >= SPAWN_RADIUS_MIN
        IN  /\ Len(nodes') > Len(nodes)
                 <=> (Cardinality(active) < MIN_ACTIVE_NODES \/ far)
            /\ Len(nodes') >= Len(nodes)
            /\ \A i \in DOMAIN nodes' :
                 IF i > Len(nodes)
                 THEN ~nodes'[i].discovered /\ ~nodes'[i].captured
                 ELSE /\ nodes'[i].id = nodes[i].id
                      /\ nodes'[i].type = nodes[i].type
                      /\ nodes'[i].tier = nodes[i].tier
                      /\ nodes'[i].geoPosition = nodes[i].geoPosition
                      /\ nodes'[i].captured = nodes[i].captured ]_vars

\* C37: capturingId is non-null exactly when the state is CAPTURING, a
\* capture interval is pending only while the state is CAPTURING, and
\* captureProgress is 0 in every other state.
C37_CaptureFieldsMatchState ==
  /\ capturingId # << >> <=> gameState = "CAPTURING"
  /\ intervals # {} => gameState = "CAPTURING"
  /\ gameState # "CAPTURING" => captureProgress = 0

\* C38: the nodes of the session's node set have pairwise distinct ids, also
\* when two batches are spawned in the same millisecond.
C38_DistinctNodeIds ==
  \A i, j \in DOMAIN nodes : i # j => nodes[i].id # nodes[j].id

\* C39: the state leaves EVAC_READY only for EVAC_ANIM (evacuate), by
\* continueExploring, by reset, or in a step after which the evac
\* precondition (nearer than HOME_RADIUS to home, a companion, the indoor
\* signal) no longer holds; the readiness effect of a render does not move
\* it to CAPTURE_READY.
C39_EvacReadyKept ==
  [][ (gameState = "EVAC_READY" /\ gameState' # "EVAC_READY")
        => \/ gameState' = "EVAC_ANIM"
           \/ HandleContinueExploring
           \/ HandleReset
           \/ currentPos' = NULL
           \/ Abs(currentPos' - startPos') >= HOME_RADIUS
           \/ Len(companions') = 0
           \/ ~isIndoor' ]_vars

====
